---- MODULE Spec2Model ----
(***************************************************************************)
(* DynamicPricingAgent of CreditAI Global (src/agent/pricing_agent.py).    *)
(*                                                                         *)
(* Number representation.  The program computes with Python floats; the    *)
(* model computes with fixed-point integers:                               *)
(*   - intermediate rates, ratios and probabilities in millionths (Micro), *)
(*   - the values the program rounds with round(x, 4) in ten-thousandths,  *)
(*   - the value it rounds with round(x, 2) (expected_profit) in cents,    *)
(*   - config weights in thousandths.                                      *)
(* Products that would leave TLC's 32-bit integers are split into partial  *)
(* products (MulMicro, ScaleLoan, RatioMicro); the split changes no value. *)
(* A model value agrees with the program's float to about one millionth    *)
(* (expected_profit: to about loan_amount * 2 millionths); where the exact *)
(* value lies that close to a rounding tie, the last rounded digit of the  *)
(* model and of the program may differ.                                    *)
(***************************************************************************)
EXTENDS Integers, Sequences, FiniteSets, TLC

Micro == 1000 * 1000

\* ------------------------------------------------------------------------
\* Fixed-point arithmetic standing for the float operations of the source.
\* ------------------------------------------------------------------------

Max(a, b) == IF b > a THEN b ELSE a

Min(a, b) == IF b < a THEN b ELSE a

\* a / b to the nearest integer, ties to even (Python's round, IEEE rounding).
RoundHalfEven(a, b) ==
    LET q == a \div b
        r == a % b
    IN  IF 2 * r < b THEN q
        ELSE IF 2 * r > b THEN q + 1
        ELSE IF q % 2 = 0 THEN q ELSE q + 1

\* The largest quotient RatioMicro writes out.  The program uses a ratio only
\* as min(ratio, 1.0) and in min(0.25 * (1 - normalized) + 0.1 * dti, 0.99);
\* for the credit scores of this model both give the same value for every
\* ratio from RatioCap on.
RatioCap == 2 * 1000

\* a / b in millionths (b > 0), by long division three digits at a time.
RatioMicro(a, b) ==
    LET q  == a \div b
        r  == a % b
        d1 == (r * 1000) \div b
        r1 == (r * 1000) % b
        d2 == (r1 * 1000) \div b
    IN  IF q >= RatioCap THEN RatioCap * Micro
        ELSE q * Micro + d1 * 1000 + d2

\* x * num / den for a small literal factor num/den (0.5, 0.3, 0.11, a weight).
MulFrac(x, num, den) == RoundHalfEven(x * num, den)

\* The product of two values in millionths, in millionths.
MulMicro(a, b) ==
    LET bh == b \div 1000
        bl == b % 1000
    IN  RoundHalfEven(a * bh + RoundHalfEven(a * bl, 1000), 1000)

\* round(x, 4): a value in millionths, rounded, in ten-thousandths.
Round4(x) == RoundHalfEven(x, 100)

\* round(loan_amount * m, 2) in cents, for m in millionths per unit of loan.
ScaleLoan(loan_amount, m) ==
    LET mh == m \div 10000
        ml == m % 10000
        lh == loan_amount \div 1000
        ll == loan_amount % 1000
        u  == lh * ml
        v  == ll * ml
    IN  loan_amount * mh + (u \div 10) + RoundHalfEven((u % 10) * 1000 + v, 10000)

\* ------------------------------------------------------------------------
\* State of one DynamicPricingAgent, its clock and the file it persists to.
\* ------------------------------------------------------------------------

VARIABLES
    config,            \* self.config: the three weights, in thousandths
    base_rates,        \* self.base_rates: country -> rate, in millionths
    min_rate,          \* self.min_rate, in millionths
    max_rate,          \* self.max_rate, in millionths
    decision_history,  \* self.decision_history: the ledger
    stats,             \* self.stats: the running aggregates
    now,               \* the reading datetime.now() gives next
    file,              \* the file export_decisions writes and load_decisions reads
    lastCall,          \* the last call: its arguments, what it returned or raised
    serialized,        \* whether the callers hold a mutex around each call
    lock,              \* the thread holding that mutex, 0 when it is free
    thread             \* per thread: where its handler is, and its local values

\* What belongs to the threads calling the shared agent.
threadVars == <<serialized, lock, thread>>

vars == <<config, base_rates, min_rate, max_rate, decision_history, stats,
          now, file, lastCall, serialized, lock, thread>>

\* The fallback of self.base_rates.get(country, 0.15), in millionths.
FallbackBaseRate == 150000

\* The cap of min(default_prob, 0.99), in millionths.
MaxDefaultProb == 990000

\* get_statistics reads self.decision_history[-100:].
Window == 100

_default_config ==
    [risk_weight |-> 600, market_weight |-> 300, profit_weight |-> 100,
     learning_rate |-> 10]

\* ------------------------------------------------------------------------
\* Applicants: dicts, a field of which may be absent.
\* ------------------------------------------------------------------------

Has(applicant, f) == f \in DOMAIN applicant

\* applicant.get(f, default)
Get(applicant, f, default) == IF Has(applicant, f) THEN applicant[f] ELSE default

\* The fields calculate_rate reads with applicant[...], in the order it first
\* reads them: a missing one raises KeyError(field) at that subscript.
SubscriptOrder == <<"country", "credit_score", "income", "loan_amount">>

FirstMissing(applicant) ==
    LET missing == {i \in 1..Len(SubscriptOrder) : ~Has(applicant, SubscriptOrder[i])}
    IN  IF missing = {} THEN "none"
        ELSE SubscriptOrder[CHOOSE i \in missing : \A j \in missing : i <= j]

\* ------------------------------------------------------------------------
\* The rate computation (pure in the applicant and the agent's configuration).
\* ------------------------------------------------------------------------

\* A faulty variant of NormalizedScore: the range 300-900 for India only, the
\* range 300-850 for any other country.
NormalizedScore_IndiaOnly(applicant) ==
    IF applicant.country = "India"
    THEN RatioMicro(applicant.credit_score - 300, 900 - 300)
    ELSE RatioMicro(applicant.credit_score - 300, 850 - 300)

\* (credit_score - 300) / (850 - 300) for USA, / (900 - 300) otherwise.
NormalizedScore(applicant) ==
    IF applicant.country = "USA"
    THEN RatioMicro(applicant.credit_score - 300, 850 - 300)
    ELSE RatioMicro(applicant.credit_score - 300, 900 - 300)

\* A faulty variant of IncomeDivisor: the income itself, without the floor of 1.
IncomeDivisor_NoFloor(applicant) == applicant.income

\* max(applicant['income'], 1): what both ratios divide by.
IncomeDivisor(applicant) == Max(applicant.income, 1)

\* applicant.get('existing_debt', 0) / max(applicant['income'], 1)
DebtToIncome(applicant) ==
    RatioMicro(Get(applicant, "existing_debt", 0), IncomeDivisor(applicant))

\* applicant['loan_amount'] / max(applicant['income'], 1)
LoanToIncome(applicant) ==
    RatioMicro(applicant.loan_amount, IncomeDivisor(applicant))

\* A faulty variant of RiskScore: the cap of 1.0 on the weighted debt term, not
\* on the ratio (the ratio is cut at 10 before the product, which changes no
\* value).
RiskScore_CapAfterWeight(applicant) ==
    MulFrac(Micro - NormalizedScore(applicant), 5, 10)
    + Min(MulFrac(Min(DebtToIncome(applicant), 10 * Micro), 3, 10), Micro)
    + MulFrac(Min(LoanToIncome(applicant), Micro), 2, 10)

\* A faulty variant of RiskScore: the normalized score itself in the place of
\* 1 - normalized_score.
RiskScore_ScoreNotInverted(applicant) ==
    MulFrac(NormalizedScore(applicant), 5, 10)
    + MulFrac(Min(DebtToIncome(applicant), Micro), 3, 10)
    + MulFrac(Min(LoanToIncome(applicant), Micro), 2, 10)

RiskScore(applicant) ==
    MulFrac(Micro - NormalizedScore(applicant), 5, 10)
    + MulFrac(Min(DebtToIncome(applicant), Micro), 3, 10)
    + MulFrac(Min(LoanToIncome(applicant), Micro), 2, 10)

_calculate_risk_adjustment(applicant) ==
    -30000 + MulFrac(RiskScore(applicant), 11, 100)

\* A faulty variant of _calculate_market_adjustment: the thresholds exclusive.
_calculate_market_adjustment_exclusive(applicant) ==
    IF applicant.country = "USA"
    THEN IF applicant.credit_score > 750 THEN -20000
         ELSE IF applicant.credit_score > 700 THEN -10000
         ELSE 0
    ELSE IF applicant.credit_score > 800 THEN -20000
         ELSE IF applicant.credit_score > 750 THEN -10000
         ELSE 0

_calculate_market_adjustment(applicant) ==
    IF applicant.country = "USA"
    THEN IF applicant.credit_score >= 750 THEN -20000
         ELSE IF applicant.credit_score >= 700 THEN -10000
         ELSE 0
    ELSE IF applicant.credit_score >= 800 THEN -20000
         ELSE IF applicant.credit_score >= 750 THEN -10000
         ELSE 0

\* A faulty variant of _calculate_profit_adjustment: the thresholds exclusive.
_calculate_profit_adjustment_exclusive(applicant) ==
    IF applicant.loan_amount > 25000 THEN -5000
    ELSE IF applicant.loan_amount > 15000 THEN -2500
    ELSE 0

_calculate_profit_adjustment(applicant) ==
    IF applicant.loan_amount >= 25000 THEN -5000
    ELSE IF applicant.loan_amount >= 15000 THEN -2500
    ELSE 0

\* default_prob before the cap: 0.25 * (1 - normalized) + dti * 0.1
UncappedDefaultProbability(applicant) ==
    MulFrac(Micro - NormalizedScore(applicant), 25, 100)
    + MulFrac(DebtToIncome(applicant), 1, 10)

\* A faulty variant of _estimate_default_probability: capped at 1.0, not 0.99.
_estimate_default_probability_cap_one(applicant) ==
    Min(UncappedDefaultProbability(applicant), Micro)

_estimate_default_probability(applicant) ==
    Min(UncappedDefaultProbability(applicant), MaxDefaultProb)

\* loan_amount * rate * (1 - default_prob) - loan_amount * 0.4 * default_prob,
\* per unit of loan, in millionths.
ProfitPerUnit(rate, default_prob) ==
    MulMicro(rate, Micro - default_prob) - MulFrac(default_prob, 4, 10)

\* round(_calculate_expected_profit(loan_amount, rate, default_prob), 2), in cents.
_calculate_expected_profit(loan_amount, rate, default_prob) ==
    ScaleLoan(loan_amount, ProfitPerUnit(rate, default_prob))

_generate_reasoning(risk_adj, market_adj, profit_adj, applicant) ==
    LET risk   == IF risk_adj < -10000
                  THEN <<"Excellent credit profile - reduced risk premium">>
                  ELSE IF risk_adj > 50000
                  THEN <<"Higher risk profile - increased rate for protection">>
                  ELSE <<"Standard risk assessment">>
        market == IF market_adj < 0
                  THEN <<"Competitive rate to win quality applicant">> ELSE <<>>
        profit == IF profit_adj < 0
                  THEN <<"Volume discount for larger loan amount">> ELSE <<>>
        score  == applicant.credit_score
        band   == IF applicant.country = "USA"
                  THEN IF score >= 750 THEN <<"Excellent FICO score (750+)">>
                       ELSE IF score < 650 THEN <<"Below-average FICO score">>
                       ELSE <<>>
                  ELSE IF score >= 800 THEN <<"Excellent CIBIL score (800+)">>
                       ELSE IF score < 700 THEN <<"Below-average CIBIL score">>
                       ELSE <<>>
    IN  risk \o market \o profit \o band

\* A faulty variant of BaseRate: the running mean adjustment feeds back into
\* the rate, so that a price depends on the decisions made before it.
BaseRate_Feedback(applicant) ==
    (IF applicant.country \in DOMAIN base_rates
     THEN base_rates[applicant.country] ELSE FallbackBaseRate)
    + stats.avg_adjustment

\* self.base_rates.get(applicant['country'], 0.15)
BaseRate(applicant) ==
    IF applicant.country \in DOMAIN base_rates
    THEN base_rates[applicant.country] ELSE FallbackBaseRate

TotalAdjustment(applicant) ==
    MulFrac(_calculate_risk_adjustment(applicant), config.risk_weight, 1000)
    + MulFrac(_calculate_market_adjustment(applicant), config.market_weight, 1000)
    + MulFrac(_calculate_profit_adjustment(applicant), config.profit_weight, 1000)

\* A faulty variant of ApplyLimits: the floor without the ceiling.
ApplyLimits_NoCeiling(final_rate) == Max(min_rate, final_rate)

\* max(self.min_rate, min(self.max_rate, final_rate))
ApplyLimits(final_rate) == Max(min_rate, Min(max_rate, final_rate))

FinalRate(applicant) == ApplyLimits(BaseRate(applicant) + TotalAdjustment(applicant))

\* The decision record calculate_rate builds; rates in ten-thousandths,
\* expected_profit in cents, timestamp the clock reading.
MakeDecision(applicant, timestamp) ==
    LET risk_adjustment   == _calculate_risk_adjustment(applicant)
        market_adjustment == _calculate_market_adjustment(applicant)
        profit_adjustment == _calculate_profit_adjustment(applicant)
        final_rate        == FinalRate(applicant)
        default_prob      == _estimate_default_probability(applicant)
    IN  [timestamp           |-> timestamp,
         applicant_id        |-> Get(applicant, "id", "unknown"),
         country             |-> applicant.country,
         credit_score        |-> applicant.credit_score,
         loan_amount         |-> applicant.loan_amount,
         base_rate           |-> Round4(BaseRate(applicant)),
         risk_adjustment     |-> Round4(risk_adjustment),
         market_adjustment   |-> Round4(market_adjustment),
         profit_adjustment   |-> Round4(profit_adjustment),
         total_adjustment    |-> Round4(TotalAdjustment(applicant)),
         final_rate          |-> Round4(final_rate),
         default_probability |-> Round4(default_prob),
         expected_profit     |-> _calculate_expected_profit(
                                     applicant.loan_amount, final_rate, default_prob),
         reasoning           |-> _generate_reasoning(
                                     risk_adjustment, market_adjustment,
                                     profit_adjustment, applicant)]

\* ------------------------------------------------------------------------
\* The ledger and its statistics.
\* ------------------------------------------------------------------------

RECURSIVE SumField(_, _)
\* sum(d[f] for d in decisions)
SumField(decisions, f) ==
    IF decisions = <<>> THEN 0
    ELSE decisions[1][f] + SumField(Tail(decisions), f)

\* decisions[-n:]
LastN(decisions, n) ==
    IF Len(decisions) <= n THEN decisions
    ELSE SubSeq(decisions, Len(decisions) - n + 1, Len(decisions))

\* A faulty variant of RecentDecisions: the whole history, no window.
RecentDecisions_All(history) == history

\* self.decision_history[-100:]
RecentDecisions(history) == LastN(history, Window)

\* round(np.mean([d[f] for d in decisions]), 4), in ten-thousandths.
RoundedMean(decisions, f) == RoundHalfEven(SumField(decisions, f), Len(decisions))

\* The running aggregates after _log_decision has appended decision to history.
UpdatedStats(old, history, decision) ==
    [old EXCEPT
        !.total_decisions = @ + 1,
        !.avg_adjustment  = RoundHalfEven(100 * SumField(history, "total_adjustment"),
                                          Len(history)),
        !.total_profit    = @ + decision.expected_profit]

\* A faulty variant of _log_decision: the decision is put in front.
_log_decision_prepend(decision) ==
    /\ decision_history' = <<decision>> \o decision_history
    /\ stats' = UpdatedStats(stats, <<decision>> \o decision_history, decision)

_log_decision(decision) ==
    /\ decision_history' = Append(decision_history, decision)
    /\ stats' = UpdatedStats(stats, Append(decision_history, decision), decision)

\* A faulty variant of get_statistics: the profit of the recent window only.
get_statistics_windowed_profit ==
    IF decision_history = <<>> THEN stats
    ELSE LET recent_decisions == RecentDecisions(decision_history)
         IN  [total_decisions         |-> stats.total_decisions,
              avg_rate_adjustment     |-> RoundedMean(recent_decisions, "total_adjustment"),
              avg_final_rate          |-> RoundedMean(recent_decisions, "final_rate"),
              total_expected_profit   |-> SumField(recent_decisions, "expected_profit"),
              avg_default_probability |-> RoundedMean(recent_decisions,
                                                      "default_probability")]

get_statistics ==
    IF decision_history = <<>> THEN stats
    ELSE LET recent_decisions == RecentDecisions(decision_history)
         IN  [total_decisions         |-> stats.total_decisions,
              avg_rate_adjustment     |-> RoundedMean(recent_decisions, "total_adjustment"),
              avg_final_rate          |-> RoundedMean(recent_decisions, "final_rate"),
              total_expected_profit   |-> stats.total_profit,
              avg_default_probability |-> RoundedMean(recent_decisions,
                                                      "default_probability")]

\* ------------------------------------------------------------------------
\* JSON text of the ledger: json.dump writes it, json.load parses it.
\* A text is a sequence of tokens: "[", one object per decision, "]".
\* ------------------------------------------------------------------------

FieldOrder ==
    <<"timestamp", "applicant_id", "country", "credit_score", "loan_amount",
      "base_rate", "risk_adjustment", "market_adjustment", "profit_adjustment",
      "total_adjustment", "final_rate", "default_probability", "expected_profit",
      "reasoning">>

\* How many decimals the model keeps of each float field (round(x, 4), round(x, 2)).
Decimals(f) ==
    IF f \in {"credit_score", "loan_amount"} THEN 0
    ELSE IF f = "expected_profit" THEN 2
    ELSE 4

RECURSIVE Digits(_)
\* The decimal digits of n >= 0.
Digits(n) == IF n < 10 THEN <<n>> ELSE Append(Digits(n \div 10), n % 10)

RECURSIVE FromDigits(_)
FromDigits(ds) ==
    IF ds = <<>> THEN 0 ELSE 10 * FromDigits(SubSeq(ds, 1, Len(ds) - 1)) + ds[Len(ds)]

RECURSIVE Pow10(_)
Pow10(k) == IF k = 0 THEN 1 ELSE 10 * Pow10(k - 1)

\* The k digits after the decimal point of a value with k decimals.
FractionDigits(n, k) ==
    [i \in 1..k |-> (n \div Pow10(k - i)) % 10]

Abs(n) == IF n < 0 THEN -n ELSE n

\* A faulty variant of EncodeNumber: the sign is not written.
EncodeNumber_Unsigned(v, k) ==
    [type     |-> "number",
     negative |-> FALSE,
     integer  |-> Digits(Abs(v) \div Pow10(k)),
     fraction |-> FractionDigits(Abs(v) % Pow10(k), k)]

\* A number as json.dump writes it: sign, integer digits, fraction digits.
EncodeNumber(v, k) ==
    [type     |-> "number",
     negative |-> v < 0,
     integer  |-> Digits(Abs(v) \div Pow10(k)),
     fraction |-> FractionDigits(Abs(v) % Pow10(k), k)]

DecodeNumber(e) ==
    LET magnitude == FromDigits(e.integer) * Pow10(Len(e.fraction))
                     + FromDigits(e.fraction)
    IN  IF e.negative THEN -magnitude ELSE magnitude

EncodeValue(f, v) ==
    IF f \in {"timestamp", "applicant_id", "country"}
    THEN [type |-> "string", chars |-> v]
    ELSE IF f = "reasoning"
    THEN [type |-> "array", items |-> [i \in 1..Len(v) |-> [type |-> "string", chars |-> v[i]]]]
    ELSE EncodeNumber(v, Decimals(f))

DecodeValue(e) ==
    IF e.type = "string" THEN e.chars
    ELSE IF e.type = "array" THEN [i \in 1..Len(e.items) |-> e.items[i].chars]
    ELSE DecodeNumber(e)

EncodeDecision(d) ==
    [tok     |-> "object",
     members |-> [i \in 1..Len(FieldOrder) |->
                    [key |-> FieldOrder[i], value |-> EncodeValue(FieldOrder[i], d[FieldOrder[i]])]]]

DecodeDecision(o) ==
    [k \in {o.members[i].key : i \in 1..Len(o.members)} |->
        DecodeValue((CHOOSE m \in {o.members[i] : i \in 1..Len(o.members)} : m.key = k).value)]

\* json.dump(self.decision_history, f)
JsonDump(history) ==
    <<[tok |-> "["]>> \o [i \in 1..Len(history) |-> EncodeDecision(history[i])]
    \o <<[tok |-> "]"]>>

\* Whether json.load accepts the text (it raises JSONDecodeError otherwise).
WellFormed(text) ==
    /\ Len(text) >= 2
    /\ text[1].tok = "["
    /\ text[Len(text)].tok = "]"
    /\ \A i \in 2..(Len(text) - 1) : text[i].tok = "object"

\* json.load(f), for a well-formed text.
JsonLoad(text) == [i \in 1..(Len(text) - 2) |-> DecodeDecision(text[i + 1])]

\* ------------------------------------------------------------------------
\* Bounds and inputs.
\* ------------------------------------------------------------------------

\* At most this many decisions are priced in one run of Spec and SpecPrice.
MaxDecisions == 2

\* At most this many decisions are priced in one run of SpecWindow.
MaxWindowDecisions == 102

\* Applicants with every required field: valid ones (scenario A of the source's
\* example; a CIBIL 900 with debt far above income; a FICO 850 without debt and
\* without id), and two outside the declared ranges (a score far above the
\* range with zero income, an unknown country with a score far below it).
CompleteApplicants ==
    { [id |-> "USA_001", country |-> "USA", credit_score |-> 720, income |-> 85000,
       loan_amount |-> 15000, employment_years |-> 5, existing_debt |-> 12000],
      [id |-> "IND_001", country |-> "India", credit_score |-> 900, income |-> 1,
       loan_amount |-> 1000, employment_years |-> 3, existing_debt |-> 2000],
      [country |-> "USA", credit_score |-> 850, income |-> 85000,
       loan_amount |-> 25000],
      [id |-> "USA_002", country |-> "USA", credit_score |-> 5000, income |-> 0,
       loan_amount |-> 100, existing_debt |-> 0],
      [id |-> "X_001", country |-> "Mars", credit_score |-> -5000, income |-> 1,
       loan_amount |-> 30000, existing_debt |-> 50000] }

\* Applicants that lack required fields.
IncompleteApplicants ==
    { [id |-> "M_1", credit_score |-> 720, income |-> 85000, loan_amount |-> 15000],
      [id |-> "M_2", country |-> "USA", income |-> 85000, loan_amount |-> 15000],
      [id |-> "M_3", country |-> "India", credit_score |-> 750, loan_amount |-> 15000,
       existing_debt |-> 100],
      [id |-> "M_4", country |-> "USA", credit_score |-> 720, income |-> 85000],
      [id |-> "M_5", credit_score |-> 720, loan_amount |-> 15000] }

Applicants == CompleteApplicants \cup IncompleteApplicants

\* The applicants of SpecWindow, priced in order of credit score.
WindowApplicants ==
    { [id |-> "USA_001", country |-> "USA", credit_score |-> 720, income |-> 85000,
       loan_amount |-> 15000, employment_years |-> 5, existing_debt |-> 12000],
      [id |-> "USA_003", country |-> "USA", credit_score |-> 780, income |-> 60000,
       loan_amount |-> 30000, employment_years |-> 9, existing_debt |-> 0] }

\* A grid of complete applicants for SpecGrid: the three kinds of country, the
\* scores at and beside every threshold of the source and beyond both ranges,
\* incomes from zero up, loans at and beside both discount thresholds, and an
\* existing_debt that is absent, zero, below and far above the income.
GridCountries == {"USA", "India", "Mars"}

GridScores == {0, 300, 649, 650, 699, 700, 749, 750, 799, 800, 850, 851, 900, 901, 1500}

GridIncomes == {0, 1, 20000, 85000}

GridLoans == {0, 14999, 15000, 24999, 25000}

GridDebts == {0, 12000, 90000}

GridApplicants ==
    { [id |-> "G", country |-> c, credit_score |-> s, income |-> i, loan_amount |-> l,
       existing_debt |-> d] :
         c \in GridCountries, s \in GridScores, i \in GridIncomes, l \in GridLoans,
         d \in GridDebts }
    \cup
    { [country |-> c, credit_score |-> s, income |-> i, loan_amount |-> l] :
         c \in GridCountries, s \in GridScores, i \in GridIncomes, l \in GridLoans }

DecisionIds == {"USA_001", "nobody"}

Outcomes == {[defaulted |-> TRUE, profit |-> -600000], [defaulted |-> FALSE, profit |-> 111322]}

\* So many threads run a handler on the shared agent in one run of SpecThreads.
NumThreads == 2

Threads == 1..NumThreads

\* A thread that has not entered its handler: no decision, nothing loaded,
\* no statistics seen.
IdleThread == [pc |-> "idle", decision |-> <<>>, loaded |-> 0, seen |-> <<>>]

\* The applicant the handler of thread t prices: the USA applicant of scenario A
\* for an odd t, the India applicant for an even t.
ThreadApplicant(t) ==
    CHOOSE a \in CompleteApplicants :
        Get(a, "id", "unknown") = (IF t % 2 = 1 THEN "USA_001" ELSE "IND_001")

\* ------------------------------------------------------------------------
\* Construction and the operations.
\* ------------------------------------------------------------------------

\* DynamicPricingAgent(); no file has been written yet.
Init ==
    /\ config = _default_config
    /\ base_rates = [USA |-> 120000, India |-> 180000]
    /\ min_rate = 80000
    /\ max_rate = 360000
    /\ decision_history = <<>>
    /\ stats = [total_decisions |-> 0, avg_adjustment |-> 0, total_profit |-> 0,
                default_rate |-> 0]
    /\ now = 1
    /\ file = [exists |-> FALSE, text |-> <<>>]
    /\ lastCall = [op |-> "__init__", kind |-> "none"]
    /\ serialized = FALSE
    /\ lock = 0
    /\ thread = [t \in Threads |-> IdleThread]

\* A faulty variant of calculate_rate: the call is counted on entry, before the
\* computation that may fail.
calculate_rate_counts_on_entry(applicant) ==
    IF FirstMissing(applicant) # "none"
    THEN /\ lastCall' = [op |-> "calculate_rate", applicant |-> applicant,
                         kind |-> "error", error |-> "KeyError",
                         arg |-> FirstMissing(applicant)]
         /\ stats' = [stats EXCEPT !.total_decisions = @ + 1]
         /\ UNCHANGED <<threadVars, config, base_rates, min_rate, max_rate,
                        decision_history, now, file>>
    ELSE LET decision == MakeDecision(applicant, now)
         IN  /\ _log_decision(decision)
             /\ now' = now + 1
             /\ lastCall' = [op |-> "calculate_rate", applicant |-> applicant,
                             kind |-> "decision", decision |-> decision]
             /\ UNCHANGED <<threadVars, config, base_rates, min_rate, max_rate, file>>

calculate_rate(applicant) ==
    IF FirstMissing(applicant) # "none"
    THEN /\ lastCall' = [op |-> "calculate_rate", applicant |-> applicant,
                         kind |-> "error", error |-> "KeyError",
                         arg |-> FirstMissing(applicant)]
         /\ UNCHANGED <<threadVars, config, base_rates, min_rate, max_rate, decision_history,
                        stats, now, file>>
    ELSE IF IncomeDivisor(applicant) = 0
    \* A division by 0 raises in _calculate_risk_adjustment, before anything
    \* is written.
    THEN /\ lastCall' = [op |-> "calculate_rate", applicant |-> applicant,
                         kind |-> "error", error |-> "ZeroDivisionError",
                         arg |-> "division by zero"]
         /\ UNCHANGED <<threadVars, config, base_rates, min_rate, max_rate, decision_history,
                        stats, now, file>>
    ELSE LET decision == MakeDecision(applicant, now)
         IN  /\ _log_decision(decision)
             /\ now' = now + 1
             /\ lastCall' = [op |-> "calculate_rate", applicant |-> applicant,
                             kind |-> "decision", decision |-> decision]
             /\ UNCHANGED <<threadVars, config, base_rates, min_rate, max_rate, file>>

\* A faulty variant of CallGetStatistics: the call stores the mean default
\* probability it computed in stats['default_rate'].
CallGetStatistics_StoresDefaultRate ==
    /\ lastCall' = [op |-> "get_statistics", kind |-> "stats", value |-> get_statistics]
    /\ stats' = IF decision_history = <<>> THEN stats
                ELSE [stats EXCEPT !.default_rate =
                         RoundedMean(RecentDecisions(decision_history),
                                     "default_probability")]
    /\ UNCHANGED <<threadVars, config, base_rates, min_rate, max_rate, decision_history,
                   now, file>>

CallGetStatistics ==
    /\ lastCall' = [op |-> "get_statistics", kind |-> "stats", value |-> get_statistics]
    /\ UNCHANGED <<threadVars, config, base_rates, min_rate, max_rate, decision_history, stats,
                   now, file>>

\* A faulty variant of learn_from_outcome: the call learns, it moves the risk
\* weight by the learning rate.
learn_from_outcome_learns(decision_id, actual_outcome) ==
    /\ lastCall' = [op |-> "learn_from_outcome", decision_id |-> decision_id,
                    actual_outcome |-> actual_outcome, kind |-> "none"]
    /\ config' = [config EXCEPT !.risk_weight = Min(1000, @ + config.learning_rate)]
    /\ UNCHANGED <<threadVars, base_rates, min_rate, max_rate, decision_history, stats,
                   now, file>>

learn_from_outcome(decision_id, actual_outcome) ==
    /\ lastCall' = [op |-> "learn_from_outcome", decision_id |-> decision_id,
                    actual_outcome |-> actual_outcome, kind |-> "none"]
    /\ UNCHANGED <<threadVars, config, base_rates, min_rate, max_rate, decision_history, stats,
                   now, file>>

export_decisions ==
    /\ file' = [exists |-> TRUE, text |-> JsonDump(decision_history)]
    /\ lastCall' = [op |-> "export_decisions", kind |-> "none"]
    /\ UNCHANGED <<threadVars, config, base_rates, min_rate, max_rate, decision_history, stats, now>>

\* The objects of a text, up to the first token that is none.
RECURSIVE ObjectsRead(_)
ObjectsRead(tokens) ==
    IF tokens = <<>> \/ tokens[1].tok # "object" THEN <<>>
    ELSE <<tokens[1]>> \o ObjectsRead(Tail(tokens))

\* A faulty variant of load_decisions: the history is assigned decision by
\* decision while the text is read, so a malformed text leaves what was read.
load_decisions_partial ==
    IF ~file.exists
    THEN /\ lastCall' = [op |-> "load_decisions", kind |-> "error",
                         error |-> "FileNotFoundError", arg |-> "filepath"]
         /\ UNCHANGED <<threadVars, config, base_rates, min_rate, max_rate, decision_history,
                        stats, now, file>>
    ELSE IF ~WellFormed(file.text)
    THEN /\ lastCall' = [op |-> "load_decisions", kind |-> "error",
                         error |-> "JSONDecodeError", arg |-> "filepath"]
         /\ decision_history' =
                LET read == IF file.text = <<>> THEN <<>>
                            ELSE ObjectsRead(Tail(file.text))
                IN  [i \in 1..Len(read) |-> DecodeDecision(read[i])]
         /\ UNCHANGED <<threadVars, config, base_rates, min_rate, max_rate, stats, now, file>>
    ELSE /\ decision_history' = JsonLoad(file.text)
         /\ lastCall' = [op |-> "load_decisions", kind |-> "none"]
         /\ UNCHANGED <<threadVars, config, base_rates, min_rate, max_rate, stats, now, file>>

\* A faulty variant of load_decisions: the loaded decisions are appended.
load_decisions_merge ==
    IF ~file.exists
    THEN /\ lastCall' = [op |-> "load_decisions", kind |-> "error",
                         error |-> "FileNotFoundError", arg |-> "filepath"]
         /\ UNCHANGED <<threadVars, config, base_rates, min_rate, max_rate, decision_history,
                        stats, now, file>>
    ELSE IF ~WellFormed(file.text)
    THEN /\ lastCall' = [op |-> "load_decisions", kind |-> "error",
                         error |-> "JSONDecodeError", arg |-> "filepath"]
         /\ UNCHANGED <<threadVars, config, base_rates, min_rate, max_rate, decision_history,
                        stats, now, file>>
    ELSE /\ decision_history' = decision_history \o JsonLoad(file.text)
         /\ lastCall' = [op |-> "load_decisions", kind |-> "none"]
         /\ UNCHANGED <<threadVars, config, base_rates, min_rate, max_rate, stats, now, file>>

load_decisions ==
    IF ~file.exists
    THEN /\ lastCall' = [op |-> "load_decisions", kind |-> "error",
                           error |-> "FileNotFoundError", arg |-> "filepath"]
         /\ UNCHANGED <<threadVars, config, base_rates, min_rate, max_rate, decision_history,
                        stats, now, file>>
    ELSE IF ~WellFormed(file.text)
    THEN /\ lastCall' = [op |-> "load_decisions", kind |-> "error",
                           error |-> "JSONDecodeError", arg |-> "filepath"]
         /\ UNCHANGED <<threadVars, config, base_rates, min_rate, max_rate, decision_history,
                        stats, now, file>>
    ELSE /\ decision_history' = JsonLoad(file.text)
         /\ lastCall' = [op |-> "load_decisions", kind |-> "none"]
         /\ UNCHANGED <<threadVars, config, base_rates, min_rate, max_rate, stats, now, file>>

\* The environment cuts a written file short after its first k tokens.
DamageFile(k) ==
    /\ file.exists
    /\ WellFormed(file.text)
    /\ k < Len(file.text)
    /\ file' = [file EXCEPT !.text = SubSeq(file.text, 1, k)]
    /\ UNCHANGED <<threadVars, config, base_rates, min_rate, max_rate, decision_history, stats,
                   now, lastCall>>

Price == \E applicant \in Applicants :
            /\ now <= MaxDecisions
            /\ calculate_rate(applicant)

Learn == \E decision_id \in DecisionIds, actual_outcome \in Outcomes :
            learn_from_outcome(decision_id, actual_outcome)

\* The file is left empty, or without its closing bracket.
Damage == \E k \in {0, Len(file.text) - 1} : DamageFile(k)

Next ==
    \/ Price
    \/ CallGetStatistics
    \/ Learn
    \/ export_decisions
    \/ load_decisions
    \/ Damage

Spec == Init /\ [][Next]_vars

\* price(), statistics() and learn_from_outcome() only: no export, no import.
NextPrice ==
    \/ Price
    \/ CallGetStatistics
    \/ Learn

SpecPrice == Init /\ [][NextPrice]_vars

\* Long runs of price() and statistics(), the applicants in order of credit score.
PriceInOrder == \E applicant \in WindowApplicants :
    /\ Len(decision_history) < MaxWindowDecisions
    /\ IF decision_history = <<>> THEN TRUE
       ELSE decision_history[Len(decision_history)].credit_score
                <= applicant.credit_score
    /\ calculate_rate(applicant)

NextWindow ==
    \/ PriceInOrder
    \/ CallGetStatistics

SpecWindow == Init /\ [][NextWindow]_vars

\* One price() of any applicant of the grid on a new agent, then statistics().
PriceGrid == \E applicant \in GridApplicants :
    /\ decision_history = <<>>
    /\ calculate_rate(applicant)

NextGrid ==
    \/ PriceGrid
    \/ CallGetStatistics

SpecGrid == Init /\ [][NextGrid]_vars

\* ------------------------------------------------------------------------
\* Threads on the shared agent. Each thread runs the handler once: it prices an
\* applicant, then reads the statistics. The statements of _log_decision are
\* steps of their own, an augmented assignment being a load and a store, so
\* that the threads interleave between them. When the callers serialize, a
\* thread holds the mutex from the start of price() to its return, and for the
\* call of statistics().
\* ------------------------------------------------------------------------

\* Thread t moves on after a store: the value it had loaded is gone.
Goto(t, pc) == [thread EXCEPT ![t].pc = pc, ![t].loaded = 0]

\* calculate_rate up to the call of _log_decision: the decision is built.
BeginPrice(t) == LET applicant == ThreadApplicant(t) IN
    /\ thread[t].pc = "idle"
    /\ serialized => lock = 0
    /\ lock' = IF serialized THEN t ELSE lock
    /\ thread' = [thread EXCEPT ![t].pc = "append",
                                ![t].decision = MakeDecision(applicant, now)]
    /\ now' = now + 1
    /\ UNCHANGED <<config, base_rates, min_rate, max_rate, decision_history, stats,
                   file, lastCall, serialized>>

\* self.decision_history.append(decision)
AppendDecision(t) ==
    /\ thread[t].pc = "append"
    /\ decision_history' = Append(decision_history, thread[t].decision)
    /\ thread' = Goto(t, "load_total")
    /\ UNCHANGED <<config, base_rates, min_rate, max_rate, stats, now, file,
                   lastCall, serialized, lock>>

\* self.stats['total_decisions'] += 1, the load
LoadTotal(t) ==
    /\ thread[t].pc = "load_total"
    /\ thread' = [thread EXCEPT ![t].pc = "store_total",
                                ![t].loaded = stats.total_decisions]
    /\ UNCHANGED <<config, base_rates, min_rate, max_rate, decision_history, stats,
                   now, file, lastCall, serialized, lock>>

\* self.stats['total_decisions'] += 1, the store
StoreTotal(t) ==
    /\ thread[t].pc = "store_total"
    /\ stats' = [stats EXCEPT !.total_decisions = thread[t].loaded + 1]
    /\ thread' = Goto(t, "load_avg")
    /\ UNCHANGED <<config, base_rates, min_rate, max_rate, decision_history, now,
                   file, lastCall, serialized, lock>>

\* np.mean([d['total_adjustment'] for d in self.decision_history])
LoadAverage(t) ==
    /\ thread[t].pc = "load_avg"
    /\ thread' = [thread EXCEPT
                    ![t].pc = "store_avg",
                    ![t].loaded = RoundHalfEven(
                        100 * SumField(decision_history, "total_adjustment"),
                        Len(decision_history))]
    /\ UNCHANGED <<config, base_rates, min_rate, max_rate, decision_history, stats,
                   now, file, lastCall, serialized, lock>>

\* self.stats['avg_adjustment'] = ...
StoreAverage(t) ==
    /\ thread[t].pc = "store_avg"
    /\ stats' = [stats EXCEPT !.avg_adjustment = thread[t].loaded]
    /\ thread' = Goto(t, "load_profit")
    /\ UNCHANGED <<config, base_rates, min_rate, max_rate, decision_history, now,
                   file, lastCall, serialized, lock>>

\* self.stats['total_profit'] += decision['expected_profit'], the load
LoadProfit(t) ==
    /\ thread[t].pc = "load_profit"
    /\ thread' = [thread EXCEPT ![t].pc = "store_profit",
                                ![t].loaded = stats.total_profit]
    /\ UNCHANGED <<config, base_rates, min_rate, max_rate, decision_history, stats,
                   now, file, lastCall, serialized, lock>>

\* A faulty variant of StoreProfit: = in the place of +=.
StoreProfit_Assign(t) ==
    /\ thread[t].pc = "store_profit"
    /\ stats' = [stats EXCEPT !.total_profit = thread[t].decision.expected_profit]
    /\ thread' = Goto(t, "priced")
    /\ lock' = IF serialized THEN 0 ELSE lock
    /\ UNCHANGED <<config, base_rates, min_rate, max_rate, decision_history, now,
                   file, lastCall, serialized>>

\* self.stats['total_profit'] += decision['expected_profit'], the store; then
\* _log_decision and calculate_rate return.
StoreProfit(t) ==
    /\ thread[t].pc = "store_profit"
    /\ stats' = [stats EXCEPT
                    !.total_profit = thread[t].loaded + thread[t].decision.expected_profit]
    /\ thread' = Goto(t, "priced")
    /\ lock' = IF serialized THEN 0 ELSE lock
    /\ UNCHANGED <<config, base_rates, min_rate, max_rate, decision_history, now,
                   file, lastCall, serialized>>

\* stats = pricing_agent.get_statistics(): the thread keeps what the call
\* returned, and the ledger as it was at the call.
ReadStatistics(t) ==
    /\ thread[t].pc = "priced"
    /\ serialized => lock = 0
    /\ thread' = [thread EXCEPT
                    ![t].pc = "done",
                    ![t].seen = [value |-> get_statistics, ledger |-> decision_history]]
    /\ UNCHANGED <<config, base_rates, min_rate, max_rate, decision_history, stats,
                   now, file, lastCall, serialized, lock>>

\* A new agent shared by the threads, whose callers serialize or do not.
InitThreads ==
    /\ config = _default_config
    /\ base_rates = [USA |-> 120000, India |-> 180000]
    /\ min_rate = 80000
    /\ max_rate = 360000
    /\ decision_history = <<>>
    /\ stats = [total_decisions |-> 0, avg_adjustment |-> 0, total_profit |-> 0,
                default_rate |-> 0]
    /\ now = 1
    /\ file = [exists |-> FALSE, text |-> <<>>]
    /\ lastCall = [op |-> "__init__", kind |-> "none"]
    /\ serialized \in BOOLEAN
    /\ lock = 0
    /\ thread = [t \in Threads |-> IdleThread]

NextThreads ==
    \/ \E t \in Threads : BeginPrice(t)
    \/ \E t \in Threads : AppendDecision(t)
    \/ \E t \in Threads : LoadTotal(t)
    \/ \E t \in Threads : StoreTotal(t)
    \/ \E t \in Threads : LoadAverage(t)
    \/ \E t \in Threads : StoreAverage(t)
    \/ \E t \in Threads : LoadProfit(t)
    \/ \E t \in Threads : StoreProfit(t)
    \/ \E t \in Threads : ReadStatistics(t)

SpecThreads == InitThreads /\ [][NextThreads]_vars

\* ------------------------------------------------------------------------
\* Properties.
\* ------------------------------------------------------------------------

Range(seq) == {seq[i] : i \in 1..Len(seq)}

IsPrefix(s, t) == Len(s) <= Len(t) /\ SubSeq(t, 1, Len(s)) = s

\* The decisions the state holds: the ledger's, and the one just returned.
DecisionsInSight ==
    Range(decision_history)
    \cup (IF lastCall.op = "calculate_rate" /\ lastCall.kind = "decision"
          THEN {lastCall.decision} ELSE {})

\* C1: after any sequence of price() calls (and of the other operations), every
\* decision returned and every decision in the ledger has
\* 0.08 <= final_rate <= 0.36 (800 and 3600 ten-thousandths).
C1_FinalRateWithinLimits ==
    \A d \in DecisionsInSight : 800 <= d.final_rate /\ d.final_rate <= 3600

\* C1 witness: a ledger holding a decision clamped at the floor (a score far
\* above the range) and one clamped at the ceiling (a score far below it).
C1_Witness ==
    /\ \E d \in Range(decision_history) : d.credit_score = 5000 /\ d.final_rate = 800
    /\ \E d \in Range(decision_history) : d.credit_score = -5000 /\ d.final_rate = 3600

\* A valid applicant: USA with a score in 300..850 or India with a score in
\* 300..900, income > 0, existing_debt >= 0.
ValidApplicant(applicant) ==
    /\ \/ applicant.country = "USA" /\ applicant.credit_score \in 300..850
       \/ applicant.country = "India" /\ applicant.credit_score \in 300..900
    /\ applicant.income > 0
    /\ Get(applicant, "existing_debt", 0) >= 0

\* C2: for every valid applicant the decision price() produces has
\* 0 <= default_probability <= 0.99 (9900 ten-thousandths).
C2_DefaultProbabilityRange ==
    (/\ lastCall.op = "calculate_rate"
     /\ lastCall.kind = "decision"
     /\ ValidApplicant(lastCall.applicant))
    => /\ 0 <= lastCall.decision.default_probability
       /\ lastCall.decision.default_probability <= 9900

\* C2 witness: a valid applicant whose debt is so far above the income that the
\* cap of 0.99 decides the probability.
C2_Witness ==
    /\ lastCall.op = "calculate_rate"
    /\ lastCall.kind = "decision"
    /\ ValidApplicant(lastCall.applicant)
    /\ UncappedDefaultProbability(lastCall.applicant) > MaxDefaultProb
    /\ lastCall.decision.default_probability = 9900

\* A step of a successful price(): the only step that reads the clock.
PricedStep == now' = now + 1

\* C3: from a new agent, every successful price() appends exactly one decision
\* at the end of the ledger and adds one to total_decisions, and no step
\* removes, reorders or alters a decision already there; so after n successful
\* price() calls the ledger has length n and total_decisions = n, and the ledger
\* before each step is a prefix of the ledger after it.
C3_AppendOnly ==
    /\ [](/\ Len(decision_history) = now - 1
          /\ stats.total_decisions = now - 1)
    /\ [][/\ IsPrefix(decision_history, decision_history')
          /\ PricedStep =>
                /\ lastCall'.kind = "decision"
                /\ decision_history' = Append(decision_history, lastCall'.decision)
                /\ stats'.total_decisions = stats.total_decisions + 1
          /\ ~PricedStep => decision_history' = decision_history]_vars

\* C3 witness: two price() calls have appended two different decisions.
C3_Witness ==
    /\ Len(decision_history) = 2
    /\ stats.total_decisions = 2
    /\ decision_history[1].applicant_id # decision_history[2].applicant_id
    /\ lastCall.op = "calculate_rate"
    /\ lastCall.kind = "decision"
    /\ decision_history[2] = lastCall.decision

\* C4: after any sequence of price() calls on a new agent, total_profit, which
\* statistics() reports as total_expected_profit, is the sum of expected_profit
\* over every decision ever appended, not over the recent window only.
C4_TotalProfitIsGlobal ==
    /\ stats.total_profit = SumField(decision_history, "expected_profit")
    /\ (lastCall.op = "get_statistics" /\ decision_history # <<>>)
       => lastCall.value.total_expected_profit
             = SumField(decision_history, "expected_profit")

\* C4 witness: statistics() on a ledger longer than the window, the profit of
\* which differs from the profit of its last 100 decisions.
C4_Witness ==
    /\ lastCall.op = "get_statistics"
    /\ Len(decision_history) > 100
    /\ lastCall.value.total_expected_profit
          # SumField(LastN(decision_history, 100), "expected_profit")

\* The last 100 decisions of the ledger (all of them when there are fewer).
Last100 ==
    LET n == Len(decision_history)
        m == IF n > 100 THEN 100 ELSE n
    IN  [i \in 1..m |-> decision_history[n - m + i]]

\* C5: the three means statistics() returns are those of exactly the last 100
\* decisions of the ledger (of all when there are 100 or fewer): older decisions
\* have no influence on them.
C5_WindowedMeans ==
    (lastCall.op = "get_statistics" /\ decision_history # <<>>)
    => /\ lastCall.value.avg_rate_adjustment
             = RoundHalfEven(SumField(Last100, "total_adjustment"), Len(Last100))
       /\ lastCall.value.avg_final_rate
             = RoundHalfEven(SumField(Last100, "final_rate"), Len(Last100))
       /\ lastCall.value.avg_default_probability
             = RoundHalfEven(SumField(Last100, "default_probability"), Len(Last100))

\* C5 witness: statistics() on a ledger longer than the window, where the mean
\* final_rate over the whole ledger is another than the one returned.
C5_Witness ==
    /\ lastCall.op = "get_statistics"
    /\ Len(decision_history) > 100
    /\ lastCall.value.avg_final_rate
          # RoundHalfEven(SumField(decision_history, "final_rate"),
                          Len(decision_history))

\* C6: export then import gives back the ledger, in order and field for field:
\* the text json.dump writes of any reachable ledger is one json.load reads
\* back as that ledger; right after an export the file reads back as the
\* ledger; and right after an import the ledger is what the file reads as.
C6_RoundTrip ==
    /\ WellFormed(JsonDump(decision_history))
    /\ JsonLoad(JsonDump(decision_history)) = decision_history
    /\ (lastCall.op = "export_decisions" /\ WellFormed(file.text))
       => JsonLoad(file.text) = decision_history
    /\ (lastCall.op = "load_decisions" /\ lastCall.kind = "none"
        /\ WellFormed(file.text))
       => decision_history = JsonLoad(file.text)

\* C6 witness: a ledger imported from a file written earlier, holding a decision
\* with negative numbers, after the agent had priced more than the file holds.
C6_Witness ==
    /\ lastCall.op = "load_decisions"
    /\ lastCall.kind = "none"
    /\ file.text = JsonDump(decision_history)
    /\ \E d \in Range(decision_history) :
          d.total_adjustment < 0 /\ d.default_probability < 0
    /\ stats.total_decisions > Len(decision_history)

\* C7: a successful import replaces the ledger: after it the ledger is exactly
\* the imported sequence, and a decision of the ledger before the import
\* remains only if the imported data holds it.
C7_ImportReplaces ==
    [][(load_decisions /\ file.exists /\ WellFormed(file.text))
       => /\ lastCall'.kind = "none"
          /\ decision_history' = JsonLoad(file.text)
          /\ \A d \in Range(decision_history) :
                d \in Range(decision_history') => d \in Range(JsonLoad(file.text))]_vars

\* C7 witness: an import has left one decision in a ledger that held two.
C7_Witness ==
    /\ lastCall.op = "load_decisions"
    /\ lastCall.kind = "none"
    /\ Len(decision_history) = 1
    /\ stats.total_decisions = 2
    /\ now = 3

\* C8: the aggregates agree with the ledger in every state that price() and
\* import reach: total_decisions is the length of the ledger and total_profit
\* the sum of its expected_profit.
C8_AggregatesMatchLedger ==
    /\ stats.total_decisions = Len(decision_history)
    /\ stats.total_profit = SumField(decision_history, "expected_profit")

\* C9: an import that fails (no readable file, or a malformed text) raises an
\* error and leaves the ledger and the aggregates as they were.
C9_FailedImportIsAtomic ==
    [][(load_decisions /\ (~file.exists \/ ~WellFormed(file.text)))
       => /\ lastCall'.op = "load_decisions"
          /\ lastCall'.kind = "error"
          /\ decision_history' = decision_history
          /\ stats' = stats]_vars

\* C9 witness: an import of a text cut short, which holds decisions that the
\* ledger does not, has raised, and the ledger holds what it held.
C9_Witness ==
    /\ lastCall.op = "load_decisions"
    /\ lastCall.kind = "error"
    /\ lastCall.error = "JSONDecodeError"
    /\ Len(file.text) = 2
    /\ file.text[2].tok = "object"
    /\ Len(decision_history) = 2
    /\ stats.total_decisions = 2

\* C10: price() of an applicant that lacks country, credit_score, income or
\* loan_amount fails with a MissingFieldError naming a missing field; an absent
\* existing_debt counts as 0 and an absent id as "unknown", without failing.
C10_MissingFieldError ==
    lastCall.op = "calculate_rate"
    => IF FirstMissing(lastCall.applicant) # "none"
       THEN /\ lastCall.kind = "error"
            /\ lastCall.error = "MissingFieldError"
            /\ lastCall.arg \in {f \in Range(SubscriptOrder) : ~Has(lastCall.applicant, f)}
       ELSE /\ lastCall.kind = "decision"
            /\ ~Has(lastCall.applicant, "id")
               => lastCall.decision.applicant_id = "unknown"
            /\ ~Has(lastCall.applicant, "existing_debt")
               => lastCall.decision
                    = MakeDecision(lastCall.applicant @@ [existing_debt |-> 0],
                                   lastCall.decision.timestamp)

\* A decision without its timestamp.
WithoutTimestamp(d) == [f \in DOMAIN d \ {"timestamp"} |-> d[f]]

\* The applicants the model prices are told apart by their id ("unknown" when
\* they have none), so that decisions of one id are decisions of one applicant.
IdsIdentifyApplicants ==
    \A a, b \in CompleteApplicants :
        Get(a, "id", "unknown") = Get(b, "id", "unknown") => a = b

\* C11: price() is deterministic and independent of history: two decisions for
\* the same applicant agree in every field but the timestamp (base_rate, the
\* adjustments, final_rate, default_probability, expected_profit, reasoning),
\* whatever calls of price(), statistics(), export, import or
\* learn_from_outcome came before or between them.
C11_SameApplicantSameDecision ==
    /\ IdsIdentifyApplicants
    /\ \A d1, d2 \in DecisionsInSight :
          d1.applicant_id = d2.applicant_id
          => WithoutTimestamp(d1) = WithoutTimestamp(d2)
    /\ (lastCall.op = "calculate_rate" /\ lastCall.kind = "decision")
       => \A d \in Range(decision_history) :
             d.applicant_id = Get(lastCall.applicant, "id", "unknown")
             => WithoutTimestamp(d) = WithoutTimestamp(lastCall.decision)

\* C11 witness: the same applicant priced twice, at different times, with an
\* export of the ledger between the two, the second time by an agent whose
\* aggregates were no longer those of a new agent.
C11_Witness ==
    /\ Len(decision_history) = 2
    /\ decision_history[1].applicant_id = decision_history[2].applicant_id
    /\ decision_history[1].timestamp # decision_history[2].timestamp
    /\ decision_history[1].total_adjustment # 0
    /\ file.exists
    /\ file.text = JsonDump(<<decision_history[1]>>)
    /\ lastCall.op = "calculate_rate"
    /\ lastCall.kind = "decision"
    /\ lastCall.decision = decision_history[2]

C13_EmptyLedgerPlaceholder ==
    (lastCall.op = "get_statistics" /\ decision_history = <<>>)
    => /\ lastCall.kind = "stats"
       /\ lastCall.value.total_decisions = 0
       /\ lastCall.value.total_profit = 0
       /\ lastCall.value.avg_adjustment = 0
       /\ lastCall.value.default_rate = 0

\* C14: learn_from_outcome does nothing, whatever its arguments (a decision_id
\* of no decision included): it returns without an error and leaves the
\* configuration weights, the base rates, the rate limits, the ledger and the
\* aggregates as they were, so that price() of an applicant right after the
\* call gives the rate fields it gave before the call.
C14_LearnIsNoOp ==
    [][/\ \A decision_id \in DecisionIds, actual_outcome \in Outcomes :
             learn_from_outcome(decision_id, actual_outcome)
             => /\ lastCall'.kind = "none"
                /\ UNCHANGED <<config, base_rates, min_rate, max_rate,
                               decision_history, stats, now, file>>
       /\ (lastCall.op = "learn_from_outcome" /\ PricedStep)
          => \A d \in Range(decision_history) :
                d.applicant_id = lastCall'.decision.applicant_id
                => WithoutTimestamp(d) = WithoutTimestamp(lastCall'.decision)]_vars

\* C14 witness: learn_from_outcome has returned in an agent with a decision in
\* its ledger, called with the id of no decision.
C14_Witness ==
    /\ lastCall.op = "learn_from_outcome"
    /\ lastCall.kind = "none"
    /\ decision_history # <<>>
    /\ \A d \in Range(decision_history) : d.applicant_id # lastCall.decision_id

\* Scenario A: USA, credit score 720, income 85000, loan 15000, debt 12000.
ScenarioA(applicant) ==
    /\ FirstMissing(applicant) = "none"
    /\ applicant.country = "USA"
    /\ applicant.credit_score = 720
    /\ applicant.income = 85000
    /\ applicant.loan_amount = 15000
    /\ Get(applicant, "existing_debt", 0) = 12000

\* C15: with the default configuration, price() of the scenario A applicant
\* gives base_rate = 0.12, market_adjustment = -0.01, profit_adjustment =
\* -0.0025 (the threshold of 15000 is inclusive), risk_adjustment = -0.0085 and
\* final_rate = 0.1117, rounded to 4 decimals.
C15_ScenarioA ==
    (lastCall.op = "calculate_rate" /\ ScenarioA(lastCall.applicant))
    => /\ config = _default_config
       /\ lastCall.kind = "decision"
       /\ lastCall.decision.base_rate = 1200
       /\ lastCall.decision.market_adjustment = -100
       /\ lastCall.decision.profit_adjustment = -25
       /\ lastCall.decision.risk_adjustment = -85
       /\ lastCall.decision.final_rate = 1117

\* C15 witness: the scenario A applicant has been priced and the decision is
\* the last of the ledger.
C15_Witness ==
    /\ lastCall.op = "calculate_rate"
    /\ ScenarioA(lastCall.applicant)
    /\ lastCall.kind = "decision"
    /\ decision_history # <<>>
    /\ decision_history[Len(decision_history)] = lastCall.decision

\* The risk adjustment of an applicant whose income counts as 1: a debt or a
\* loan of 1 or more is a ratio of 1 or more, which the risk score caps at 1.
RiskAdjustmentAtIncomeOne(applicant) ==
    LET credit == MulFrac(Micro - NormalizedScore(applicant), 5, 10)
        dti    == IF Get(applicant, "existing_debt", 0) >= 1 THEN 300000 ELSE 0
        lti    == IF applicant.loan_amount >= 1 THEN 200000 ELSE 0
    IN  Round4(-30000 + MulFrac(credit + dti + lti, 11, 100))

\* C16: price() of an applicant with income = 0 raises no division error: both
\* ratios divide by max(income, 1) = 1, so that dti = existing_debt / 1 and
\* lti = loan_amount / 1 (each capped at 1.0 in the risk score), and a decision
\* is produced and appended to the ledger.
C16_ZeroIncome ==
    (/\ lastCall.op = "calculate_rate"
     /\ FirstMissing(lastCall.applicant) = "none"
     /\ lastCall.applicant.income = 0)
    => /\ lastCall.kind = "decision"
       /\ decision_history # <<>>
       /\ decision_history[Len(decision_history)] = lastCall.decision
       /\ DebtToIncome(lastCall.applicant)
             = RatioMicro(Get(lastCall.applicant, "existing_debt", 0), 1)
       /\ LoanToIncome(lastCall.applicant)
             = RatioMicro(lastCall.applicant.loan_amount, 1)
       /\ lastCall.decision.risk_adjustment
             = RiskAdjustmentAtIncomeOne(lastCall.applicant)
       /\ lastCall.decision
             = MakeDecision([lastCall.applicant EXCEPT !.income = 1],
                            lastCall.decision.timestamp)

\* C16 witness: an applicant with income 0 and a debt has been priced, and the
\* decision, with the debt ratio at its cap, is in the ledger.
C16_Witness ==
    /\ lastCall.op = "calculate_rate"
    /\ lastCall.kind = "decision"
    /\ lastCall.applicant.income = 0
    /\ Get(lastCall.applicant, "existing_debt", 0) = 12000
    /\ lastCall.applicant.loan_amount = 0
    /\ DebtToIncome(lastCall.applicant) > Micro
    /\ decision_history = <<lastCall.decision>>

\* C17: price() of an applicant whose country is neither USA nor India does not
\* fail: base_rate is the fallback 0.15, and every branch on the country (the
\* bounds of the score normalization, the market thresholds, the band of the
\* credit-score reason) is the one India takes: range 300-900, thresholds 800
\* and 750, the CIBIL reasons.
C17_UnknownCountry ==
    (/\ lastCall.op = "calculate_rate"
     /\ FirstMissing(lastCall.applicant) = "none"
     /\ lastCall.applicant.country \notin {"USA", "India"})
    => /\ lastCall.kind = "decision"
       /\ lastCall.decision.base_rate = 1500
       /\ LET d      == lastCall.decision
              score  == lastCall.applicant.credit_score
              india  == MakeDecision([lastCall.applicant EXCEPT !.country = "India"],
                                     d.timestamp)
          IN  /\ d.risk_adjustment = india.risk_adjustment
              /\ d.market_adjustment = india.market_adjustment
              /\ d.profit_adjustment = india.profit_adjustment
              /\ d.total_adjustment = india.total_adjustment
              /\ d.default_probability = india.default_probability
              /\ d.reasoning = india.reasoning
              /\ d.market_adjustment = (IF score >= 800 THEN -200
                                        ELSE IF score >= 750 THEN -100 ELSE 0)
              /\ score >= 800
                 => d.reasoning[Len(d.reasoning)] = "Excellent CIBIL score (800+)"
              /\ score < 700
                 => d.reasoning[Len(d.reasoning)] = "Below-average CIBIL score"
              /\ \A i \in 1..Len(d.reasoning) :
                    d.reasoning[i] \notin {"Excellent FICO score (750+)",
                                           "Below-average FICO score"}

\* C17 witness: an applicant of another country with a score of 750, where the
\* USA branch would give -0.02 and the India branch gives -0.01, priced at a
\* base rate of 0.15.
C17_Witness ==
    /\ lastCall.op = "calculate_rate"
    /\ lastCall.kind = "decision"
    /\ lastCall.applicant.country = "Mars"
    /\ lastCall.applicant.credit_score = 750
    /\ lastCall.decision.base_rate = 1500
    /\ lastCall.decision.market_adjustment = -100
    /\ decision_history = <<lastCall.decision>>

\* The market adjustment as a step of the score with inclusive thresholds: -0.02
\* from high on, -0.01 from low to high - 1, 0 below low.
MarketStep(score, low, high) ==
    IF score >= high THEN -200 ELSE IF score >= low THEN -100 ELSE 0

\* C18: the market adjustment is a step function of the country and the credit
\* score alone, with inclusive thresholds: for USA -0.02 from 750 on, -0.01 for
\* 700..749, 0 below 700; for India -0.02 from 800 on, -0.01 for 750..799, 0
\* below 750; whatever the income, the loan amount and the debt.
C18_MarketAdjustmentStep ==
    (lastCall.op = "calculate_rate" /\ lastCall.kind = "decision")
    => LET score == lastCall.applicant.credit_score
       IN  /\ lastCall.applicant.country = "USA"
              => lastCall.decision.market_adjustment = MarketStep(score, 700, 750)
           /\ lastCall.applicant.country = "India"
              => lastCall.decision.market_adjustment = MarketStep(score, 750, 800)

\* C18 witness: an India applicant priced with a score on the threshold of 750,
\* with -0.01, with no income and the largest debt of the grid.
C18_Witness ==
    /\ lastCall.op = "calculate_rate"
    /\ lastCall.kind = "decision"
    /\ lastCall.applicant.credit_score = 750
    /\ lastCall.applicant.income = 0
    /\ Get(lastCall.applicant, "existing_debt", 0) = 90000
    /\ lastCall.applicant.country = "India"
    /\ lastCall.decision.market_adjustment = -100

\* A well-formed applicant: a score within the range of its country (300-850
\* for USA, 300-900 otherwise), income > 0, loan_amount >= 0, debt >= 0.
WellFormedApplicant(applicant) ==
    /\ FirstMissing(applicant) = "none"
    /\ applicant.credit_score >= 300
    /\ applicant.credit_score <= (IF applicant.country = "USA" THEN 850 ELSE 900)
    /\ applicant.income > 0
    /\ applicant.loan_amount >= 0
    /\ Get(applicant, "existing_debt", 0) >= 0

\* C19: for every well-formed applicant the risk score is within [0, 1] and the
\* risk adjustment, -0.03 + risk_score * 0.11, within [-0.03, 0.08]; the debt
\* and loan ratios are capped at 1.0, so that they add at most 0.3 and 0.2 to
\* the risk score.
C19_RiskAdjustmentRange ==
    (/\ lastCall.op = "calculate_rate"
     /\ lastCall.kind = "decision"
     /\ WellFormedApplicant(lastCall.applicant))
    => LET a      == lastCall.applicant
           credit == MulFrac(Micro - NormalizedScore(a), 5, 10)
       IN  /\ 0 <= RiskScore(a) /\ RiskScore(a) <= Micro
           /\ 0 <= RiskScore(a) - credit
           /\ RiskScore(a) - credit <= 300000 + 200000
           /\ (a.loan_amount = 0) => RiskScore(a) - credit <= 300000
           /\ (Get(a, "existing_debt", 0) = 0) => RiskScore(a) - credit <= 200000
           /\ _calculate_risk_adjustment(a) = -30000 + MulFrac(RiskScore(a), 11, 100)
           /\ lastCall.decision.risk_adjustment = Round4(_calculate_risk_adjustment(a))
           /\ -300 <= lastCall.decision.risk_adjustment
           /\ lastCall.decision.risk_adjustment <= 800

\* C19 witness: the upper end of the range is met: a well-formed applicant with
\* the worst score and both ratios above 1 has a risk score of 1 and a risk
\* adjustment of 0.08.
C19_Witness ==
    /\ lastCall.op = "calculate_rate"
    /\ lastCall.kind = "decision"
    /\ WellFormedApplicant(lastCall.applicant)
    /\ lastCall.applicant.credit_score = 300
    /\ DebtToIncome(lastCall.applicant) > Micro
    /\ LoanToIncome(lastCall.applicant) > Micro
    /\ RiskScore(lastCall.applicant) = Micro
    /\ lastCall.decision.risk_adjustment = 800

\* The threads that have appended their decision and not yet returned.
InLogDecision ==
    {t \in Threads : thread[t].pc \in {"load_total", "store_total", "load_avg",
                                        "store_avg", "load_profit", "store_profit"}}

\* What a caller can tell from a result of statistics() and the ledger as it
\* was at the call: every decision of the ledger is counted.
SeenConsistent(seen) ==
    /\ seen.value.total_decisions = Len(seen.ledger)
    /\ (seen.ledger # <<>>)
       => seen.value.total_expected_profit = SumField(seen.ledger, "expected_profit")

\* C20: the append to the ledger and the update of the aggregates are not
\* atomic as a pair. The aggregates never count more decisions than the ledger
\* holds, but they may count fewer. When the callers serialize price() and
\* statistics() by a mutex, at most one thread is inside _log_decision, the
\* aggregates agree with the ledger whenever the mutex is free, and no caller
\* of statistics() sees a ledger with a decision that total_decisions and
\* total_profit do not count. (That such a state is reached, and an update
\* lost, when the callers do not serialize, is the witness.)
C20_SerializedCallersSeeNoGap ==
    /\ stats.total_decisions <= Len(decision_history)
    /\ serialized
       => /\ Cardinality(InLogDecision) <= 1
          /\ \A t \in InLogDecision : lock = t
          /\ (lock = 0)
             => /\ stats.total_decisions = Len(decision_history)
                /\ stats.total_profit = SumField(decision_history, "expected_profit")
          /\ \A t \in Threads :
                thread[t].pc = "done" => SeenConsistent(thread[t].seen)

\* C20 witness: the callers do not serialize; both threads have returned; the
\* ledger holds two decisions, total_decisions counts one and total_profit the
\* profit of one (an update of each was lost); and a caller of statistics() saw
\* a ledger of two decisions with total_decisions = 1.
C20_Witness ==
    /\ ~serialized
    /\ \A t \in Threads : thread[t].pc = "done"
    /\ Len(decision_history) = 2
    /\ stats.total_decisions = 1
    /\ stats.total_profit # SumField(decision_history, "expected_profit")
    /\ \E t \in Threads :
          /\ Len(thread[t].seen.ledger) = 2
          /\ thread[t].seen.value.total_decisions = 1
          /\ ~SeenConsistent(thread[t].seen)

\* C21: a price() that fails, a required field of the applicant being missing,
\* has no effect on the state: the ledger, total_decisions, total_profit and
\* the stored average adjustment (and the rest of the agent) are after the
\* failed call what they were before it, the decision being logged only after
\* every computation has succeeded.
C21_FailedPriceHasNoEffect ==
    [][\A applicant \in IncompleteApplicants :
          calculate_rate(applicant)
          => /\ lastCall'.op = "calculate_rate"
             /\ lastCall'.kind = "error"
             /\ decision_history' = decision_history
             /\ stats'.total_decisions = stats.total_decisions
             /\ stats'.total_profit = stats.total_profit
             /\ stats'.avg_adjustment = stats.avg_adjustment
             /\ UNCHANGED <<config, base_rates, min_rate, max_rate,
                            decision_history, stats, now, file>>]_vars

\* C21 witness: a price() of an applicant without income has failed in an agent
\* that had priced before: the ledger holds the one decision, the aggregates
\* count it and nothing more.
C21_Witness ==
    /\ lastCall.op = "calculate_rate"
    /\ lastCall.kind = "error"
    /\ lastCall.arg = "income"
    /\ Len(decision_history) = 1
    /\ stats.total_decisions = 1
    /\ stats.total_profit = decision_history[1].expected_profit
    /\ stats.total_profit # 0
    /\ now = 2

\* The decision of the applicant with another credit score, all else equal.
WithScore(applicant, score, timestamp) ==
    MakeDecision([applicant EXCEPT !.credit_score = score], timestamp)

\* C22: with the default weights, which are not negative, of two applicants of
\* one country that differ in the credit score only, the one with the higher
\* score gets neither a higher final_rate nor a higher default_probability.
C22_MonotoneInCreditScore ==
    (lastCall.op = "calculate_rate" /\ lastCall.kind = "decision")
    => /\ config = _default_config
       /\ \A w \in {config.risk_weight, config.market_weight, config.profit_weight} :
             w >= 0
       /\ \A score \in GridScores :
             LET d     == lastCall.decision
                 other == WithScore(lastCall.applicant, score, d.timestamp)
             IN  /\ score > d.credit_score
                    => /\ other.final_rate <= d.final_rate
                       /\ other.default_probability <= d.default_probability
                 /\ score < d.credit_score
                    => /\ other.final_rate >= d.final_rate
                       /\ other.default_probability >= d.default_probability

\* C22 witness: an applicant priced between the limits, for whom a score 50
\* higher gives a final_rate and a default_probability strictly lower.
C22_Witness ==
    /\ lastCall.op = "calculate_rate"
    /\ lastCall.kind = "decision"
    /\ lastCall.applicant.country = "India"
    /\ lastCall.applicant.credit_score = 750
    /\ lastCall.applicant.income = 85000
    /\ LET d     == lastCall.decision
           other == WithScore(lastCall.applicant, 800, d.timestamp)
       IN  /\ other.final_rate < d.final_rate
           /\ d.final_rate < 3600
           /\ other.final_rate > 800
           /\ other.default_probability < d.default_probability

====
